---- MODULE Spec2Model ----
(***************************************************************************)
(* Model of the mpflow project creator (class Creator / CreatorAPI):       *)
(* the seven tapable hooks, plugin registration, create() and              *)
(* installPlugin(); and of the mpflow plugin of @mpflow/service, which     *)
(* configures the MpflowPlugin of every webpack config.                    *)
(*                                                                         *)
(* Strings that the code inspects (template names) are sequences of        *)
(* characters.  Values that only flow through plugin handlers              *)
(* (projectName, appId, a template path rewritten by a plugin) carry the   *)
(* chain of handlers that produced them, so two values are equal only when *)
(* they were produced by the same chain of handlers.                       *)
(***************************************************************************)
EXTENDS Integers, Sequences, FiniteSets, TLC

\* ------------------------------------------------------------------ bounds
\* number of caller-supplied inline plugins (options.plugins)
MaxInline == 1
\* number of create() calls made on one Creator instance
MaxCreates == 2
\* number of installPlugin() calls made on one Creator instance
MaxInstalls == 2

\* --------------------------------------------------------------- constants
\* the hooks of Creator.hooks, in the order create() calls them
Stages ==
  <<"prepare", "resolveTemplate", "render", "beforeEmit", "emit", "init", "afterInit">>

\* a create() that calls emit before beforeEmit
StageNameEmitEarly(n) == Stages[IF n = 4 THEN 5 ELSE IF n = 5 THEN 4 ELSE n]

\* the n-th hook create() calls
StageName(n) == Stages[n]

\* AsyncSeriesWaterfallHook instances; every other hook is an AsyncSeriesHook
WaterfallStages == {"prepare", "resolveTemplate"}

\* the hooks a plugin can tap through its CreatorAPI handle
TapStages == {"prepare", "resolveTemplate", "render", "beforeEmit", "emit", "init"}

\* the hooks whose handlers are passed the files object
FileStages == {"render", "beforeEmit", "emit"}

\* the tap name the constructor uses for the default handlers
CreatorTap == "creator"

\* the hooks the constructor taps
DefaultStages == {"resolveTemplate", "render", "emit", "init"}

\* ids of the plugins listed in resolvePluginInfos
BuildInPlugins ==
  << "@mpflow/cli/lib/creator-plugins/request-app-id",
     "@mpflow/cli/lib/creator-plugins/recommended",
     "@mpflow/cli/lib/creator-plugins/init-git" >>

\* ids available for inline plugins
InlineNames == <<"inline-1", "inline-2", "inline-3", "inline-4">>

Range(s) == {s[i] : i \in 1..Len(s)}

\* character strings
FilePrefix == <<"f", "i", "l", "e", ":", "/", "/">>
HttpPrefix == <<"h", "t", "t", "p", ":", "/", "/">>
HttpsPrefix == <<"h", "t", "t", "p", "s", ":", "/", "/">>

\* template names given to the constructor: "file://t", "https://h",
\* "http://h", "pkg", and "http", the name of a package
TemplateNames ==
  { FilePrefix \o <<"t">>, HttpsPrefix \o <<"h">>, HttpPrefix \o <<"h">>,
    <<"p", "k", "g">>, <<"h", "t", "t", "p">> }

\* what a plugin module can look like: without a creator function, or with
\* a creator function that taps the given hooks
PluginModules ==
  { [creator |-> FALSE, taps |-> {}],
    [creator |-> TRUE, taps |-> TapStages] }

\* the files of a template
TemplateFiles == {"tpl"}

VARIABLES
  options,       \* constructor options: templateName, projectName, appId, plugins
  modules,       \* plugin id -> the module that require() returns for it
  hooks,         \* hook name -> sequence of taps (tap names, in tap order)
  pc,            \* create(): "idle", "run", "resolved", "rejected"
  rejection,     \* create(): the error its promise is rejected with
  stage,         \* create(): 0 while initPlugins is awaited, else the hook being run
  k,             \* the hook call: index of the handler in flight, 0 when settled
  step,          \* the handler in flight: what it is waiting for
  args,          \* the hook call: the arguments given to promise()
  acc,           \* the hook call: the waterfall value
  infos,         \* create(): projectName, appId, templateName after prepare
  templatePath,  \* create(): result of resolveTemplate
  files,         \* create(): reference of the files object
  heap,          \* reference -> content of a files object
  tmpPath,       \* getTemplatePath: the temp directory of the call in flight
  downloadUrl,   \* getTemplatePath: the url of the call in flight
  disk,          \* the target directory (this.context): path -> content
  tmpDirs,       \* the temp directories that exist
  log,           \* what happened in the current create(), in order
  creates,       \* number of create() calls so far
  creatorCalls,  \* the creator functions invoked so far: plugin ids, in order
  diskAtCall,    \* the target directory when the current create() was called
  ipc,           \* installPlugin(): "idle", "install", "generate", "resolved", "rejected"
  irejection,    \* installPlugin(): the error its promise is rejected with
  pluginNames,   \* installPlugin(): its argument
  nodeModules,   \* packages installed by installNodeModules, in order
  configPlugins, \* the plugins field of mpflow.config.js
  generations,   \* the generate() calls made, in order
  installs,      \* number of installPlugin() calls so far
  webpackConfigs,    \* mpflow plugin: ids of the webpack configs of the service
  config,            \* mpflow plugin: the project config given to mpflow(api, config)
  emitProjectConfig, \* mpflow plugin: the flag of the plugin's closure
  registered,        \* mpflow plugin: the callback given to beforeConfigureWebpack has run
  pending,           \* mpflow plugin: <<config id, callback>> registered and still to run
  mpflowConfigs,     \* mpflow plugin: config id -> the ConfigChain given to its MpflowPlugin
  configured         \* mpflow plugin: the tap callbacks run so far, in order

createVars ==
  << hooks, pc, rejection, stage, k, step, args, acc, infos, templatePath, files, heap,
     tmpPath, downloadUrl, disk, tmpDirs, log, creates, creatorCalls, diskAtCall >>

installVars ==
  << ipc, irejection, pluginNames, nodeModules, configPlugins, generations, installs >>

serviceVars ==
  << webpackConfigs, config, emitProjectConfig, registered, pending, mpflowConfigs, configured >>

\* what create() and the hooks leave alone
outsideCreate == << installVars, serviceVars >>

\* what installPlugin() leaves alone
outsideInstall == << createVars, serviceVars >>

vars == << options, modules, createVars, installVars, serviceVars >>

\* ---------------------------------------------------------------- strings
StartsWith(s, prefix) ==
  /\ Len(s) >= Len(prefix)
  /\ SubSeq(s, 1, Len(prefix)) = prefix

\* a getTemplatePath that takes no name for a local one
IsLocalTemplateNever(templateName) == FALSE

\* templateName.startsWith('file://')
IsLocalTemplate(templateName) == StartsWith(templateName, FilePrefix)

\* a getTemplatePath that takes only https:// names for urls
IsUrlHttpsOnly(templateName) == StartsWith(templateName, HttpsPrefix)

\* a getTemplatePath that takes every name for a url
IsUrlAlways(templateName) == TRUE

\* /^https?:\/\//.test(templateName)
IsUrl(templateName) ==
  StartsWith(templateName, HttpPrefix) \/ StartsWith(templateName, HttpsPrefix)

\* an optional constructor option
Unset == [set |-> FALSE, val |-> <<>>]
Given(v) == [set |-> TRUE, val |-> v]

\* option || ''
OrEmpty(o) == IF o.set /\ o.val # <<>> THEN o.val ELSE <<>>

\* ----------------------------------------------------------------- values
\* a template name: its characters, and the prepare handlers it went through
Name(chars) == [chars |-> chars, via |-> <<>>]

NoInfos == [projectName |-> <<>>, appId |-> <<>>, templateName |-> Name(<<>>)]

NoPath == [kind |-> "none", base |-> <<>>, dir |-> 0, sub |-> <<>>, via |-> <<>>]

\* path.join(path.resolve(templateName.substr(7)), 'template')
LocalTemplatePath(templateName) ==
  [ kind |-> "local",
    base |-> SubSeq(templateName, Len(FilePrefix) + 1, Len(templateName)),
    dir |-> 0,
    sub |-> <<"template">>,
    via |-> <<>> ]

\* path.join(tmpPath, 'package', 'template')
TmpTemplatePath(dir) ==
  [ kind |-> "tmp", base |-> <<>>, dir |-> dir,
    sub |-> <<"package", "template">>, via |-> <<>> ]

\* this.context, the target directory
Context == "context"

EmptyFiles == [p \in {} |-> NoInfos]

\* an assignment that leaves the target with the source's properties only
AssignMirror(target, source) == source

\* Object.assign(target, source)
Assign(target, source) ==
  [ p \in DOMAIN target \cup DOMAIN source |->
      IF p \in DOMAIN source THEN source[p] ELSE target[p] ]

Without(f, path) == [p \in DOMAIN f \ {path} |-> f[p]]

Restrict(f, S) == [p \in DOMAIN f \cap S |-> f[p]]

\* syncFiles(fs, context, files): every file written over the directory,
\* the other files of the directory left as they are
syncFiles(dir, f) == Assign(dir, f)

\* renderFiles(fs, templatePath, '**/*', {projectName, appId}): every file of
\* the template, rendered with the context
renderFiles(path, context) ==
  [ p \in TemplateFiles |->
      [by |-> CreatorTap, projectName |-> context.projectName, appId |-> context.appId] ]

\* ---------------------------------------------------------- plugin handlers
\* what a plugin's handler does to the files object it is given: a render
\* handler adds a file, a beforeEmit handler of a built-in plugin rewrites
\* the template's file, one of an inline plugin removes it
PluginOp(s, tap) ==
  CASE s = "render" -> "add gen"
    [] s = "beforeEmit" -> IF tap \in Range(BuildInPlugins) THEN "rewrite tpl" ELSE "remove tpl"
    [] OTHER -> "none"

PluginContent(tap) == [by |-> tap, projectName |-> <<>>, appId |-> <<>>]

ApplyOp(f, op, tap) ==
  CASE op = "add gen" -> Assign(f, [p \in {"gen"} |-> PluginContent(tap)])
    [] op = "rewrite tpl" ->
         IF "tpl" \in DOMAIN f
           THEN Assign(f, [p \in {"tpl"} |-> PluginContent(tap)])
           ELSE f
    [] op = "remove tpl" -> Without(f, "tpl")
    [] OTHER -> f

\* the value a plugin's waterfall handler returns for the value it is given:
\* that value, marked as returned by this handler
PluginReturn(s, tap, recv) ==
  IF s = "prepare"
    THEN [ projectName |-> Append(recv.projectName, tap),
           appId |-> Append(recv.appId, tap),
           templateName |-> [recv.templateName EXCEPT !.via = Append(@, tap)] ]
    ELSE [recv EXCEPT !.via = Append(@, tap)]

\* what a series handler returns; the hook drops it
Dropped == [dropped |-> TRUE]

\* the error a failing call throws: what failed, and in which handler
Failure(s, tap, i, what) == [stage |-> s, tap |-> tap, k |-> i, step |-> what]

NoError == Failure("", "", 0, "none")

\* an await that rejects with an error of its own, the cause inside
RethrownWrapped(err) == [stage |-> "create", tap |-> "", k |-> 0, step |-> "wrapped", cause |-> err]

\* await of a promise that rejects with err, in an async function without
\* try/catch: the function's promise rejects with err
Rethrown(err) == err

\* ------------------------------------------------------------ registration
\* resolvePluginInfos(inlinePlugins)
resolvePluginInfos(inlinePlugins) == BuildInPlugins \o inlinePlugins

\* BaseService.resolvePlugins(): the plugin infos with their modules loaded
resolvePlugins ==
  LET pluginInfos == resolvePluginInfos(options.plugins)
  IN  [i \in 1..Len(pluginInfos) |-> [id |-> pluginInfos[i], plugin |-> modules[pluginInfos[i]]]]

\* a tap that puts the handler before the ones tapped earlier
TapPromiseFirst(h, id, tapped) ==
  [s \in DOMAIN h |-> IF s \in tapped THEN <<id>> \o h[s] ELSE h[s]]

\* api.tapX(handler) for every hook X the creator function taps:
\* this.service.hooks.X.tapPromise(this.id, handler)
TapPromise(h, id, tapped) ==
  [s \in DOMAIN h |-> IF s \in tapped THEN Append(h[s], id) ELSE h[s]]

\* plugin.creator && plugin.creator(new CreatorAPI(id, this))
RunCreator(h, entry) ==
  IF entry.plugin.creator THEN TapPromise(h, entry.id, entry.plugin.taps) ELSE h

\* plugins.forEach(...) from entry i on
RECURSIVE ForEachPlugin(_, _, _)
ForEachPlugin(h, plugins, i) ==
  IF i > Len(plugins)
    THEN h
    ELSE ForEachPlugin(RunCreator(h, plugins[i]), plugins, i + 1)

\* the hooks after initPlugins()
initPlugins(h) == ForEachPlugin(h, resolvePlugins, 1)

\* the ids of the plugins whose creator function initPlugins() invokes
RECURSIVE Invoked(_, _)
Invoked(plugins, i) ==
  IF i > Len(plugins) THEN <<>>
  ELSE (IF plugins[i].plugin.creator THEN <<plugins[i].id>> ELSE <<>>) \o Invoked(plugins, i + 1)

\* a constructor that leaves render without its default handler
ConstructorHooksNoRender ==
  [s \in Range(Stages) |-> IF s \in DefaultStages \ {"render"} THEN <<CreatorTap>> ELSE <<>>]

\* the hooks after the constructor
ConstructorHooks ==
  [s \in Range(Stages) |-> IF s \in DefaultStages THEN <<CreatorTap>> ELSE <<>>]

\* --------------------------------------------------------------------- Init
\* the project config of a service: the fields the mpflow plugin reads
ProjectConfig(sourceDir, miniprogramRoot, pluginRoot) ==
  [ appId |-> "wx123", compileType |-> "miniprogram", outputDir |-> Unset, qcloudRoot |-> Unset,
    sourceDir |-> sourceDir, miniprogramRoot |-> miniprogramRoot, pluginRoot |-> pluginRoot ]

NoConfig == ProjectConfig(Unset, Unset, Unset)

InitOptions ==
  { [ templateName |-> Given(t),
      projectName |-> Given(<<"demo">>),
      appId |-> Unset,
      plugins |-> SubSeq(InlineNames, 1, n) ] :
    t \in TemplateNames, n \in 0..MaxInline }

\* the state new Creator(context, options) leaves
Constructed ==
  /\ hooks = ConstructorHooks
  /\ pc = "idle"
  /\ rejection = NoError
  /\ stage = 0
  /\ k = 0
  /\ step = "none"
  /\ args = <<>>
  /\ acc = <<>>
  /\ infos = NoInfos
  /\ templatePath = NoPath
  /\ files = 0
  /\ heap = [r \in {} |-> EmptyFiles]
  /\ tmpPath = 0
  /\ downloadUrl = <<>>
  /\ disk = EmptyFiles
  /\ tmpDirs = {}
  /\ log = <<>>
  /\ creates = 0
  /\ creatorCalls = <<>>
  /\ diskAtCall = EmptyFiles
  /\ ipc = "idle"
  /\ irejection = NoError
  /\ pluginNames = <<>>
  /\ nodeModules = <<>>
  /\ generations = <<>>
  /\ installs = 0

\* the mpflow plugin of @mpflow/service is not loaded
NotLoaded ==
  /\ webpackConfigs = {}
  /\ config = NoConfig
  /\ emitProjectConfig = FALSE
  /\ registered = FALSE
  /\ pending = {}
  /\ mpflowConfigs = << >>
  /\ configured = <<>>

\* the modules of the plugins: those under ./creator-plugins have a creator
\* function, an inline plugin may have one
LoadedModules(inlinePlugins) ==
  { m \in [Range(resolvePluginInfos(inlinePlugins)) -> PluginModules] :
      \A p \in Range(BuildInPlugins) : m[p].creator }

Init ==
  /\ options \in InitOptions
  /\ modules \in LoadedModules(options.plugins)
  /\ configPlugins = <<>>
  /\ Constructed
  /\ NotLoaded

\* ------------------------------------------------------------ the hook call
Entry(ev, s, i, tap, val) == [ev |-> ev, stage |-> s, k |-> i, tap |-> tap, val |-> val]

Deref(h, ref) == IF ref \in DOMAIN h THEN h[ref] ELSE EmptyFiles

Store(h, ref, f) == [r \in DOMAIN h \cup {ref} |-> IF r = ref THEN f ELSE h[r]]

\* what the hook passes to a handler: a waterfall hook the value returned by
\* the handler before it, a series hook the arguments of the call
Received(s, value, input) == IF s \in WaterfallStages THEN value ELSE input

\* a waterfall hook that drops what its handlers return
KeptInput(s, value, ret) == value

\* the value a hook keeps once a handler has returned ret
Kept(s, value, ret) == IF s \in WaterfallStages THEN ret ELSE value

\* the arguments of the handler in flight
CurrentStage == StageName(stage)
CurrentTap == hooks[CurrentStage][k]
CurrentRecv == Received(CurrentStage, acc, args)

\* an init handler that goes on to @mpflow/service without awaiting the
\* installation of the project's dependencies
FirstStepInitSkips(s, tap, recv) ==
  IF tap # CreatorTap THEN "plugin"
  ELSE CASE s = "resolveTemplate" -> IF IsLocalTemplate(recv.chars) THEN "local" ELSE "tmp.dir"
         [] s = "render" -> "renderFiles"
         [] s = "emit" -> "syncFiles"
         [] s = "init" -> "installService"
         [] OTHER -> "plugin"

\* where a handler stands once its synchronous part has run
FirstStep(s, tap, recv) ==
  IF tap # CreatorTap THEN "plugin"
  ELSE CASE s = "resolveTemplate" -> IF IsLocalTemplate(recv.chars) THEN "local" ELSE "tmp.dir"
         [] s = "render" -> "renderFiles"
         [] s = "emit" -> "syncFiles"
         [] s = "init" -> "installDeps"
         [] OTHER -> "plugin"

\* the calls a default handler makes in its synchronous part
FirstCalls(s, i, tap, recv, h) ==
  IF tap # CreatorTap THEN <<>>
  ELSE CASE s = "resolveTemplate" ->
              IF IsLocalTemplate(recv.chars) THEN <<>>
              ELSE <<Entry("io", s, i, tap, [what |-> "tmp.dir"])>>
         [] s = "render" ->
              <<Entry("io", s, i, tap, [what |-> "renderFiles", path |-> recv.infos.templatePath])>>
         [] s = "emit" ->
              <<Entry("io", s, i, tap, [what |-> "syncFiles", files |-> Deref(h, recv.files)])>>
         [] s = "init" ->
              <<Entry("io", s, i, tap, [what |-> "installNodeModules", modules |-> <<>>])>>
         [] OTHER -> <<>>

StartLog(s, i, tap, recv, h) ==
  <<Entry("start", s, i, tap, recv)>> \o FirstCalls(s, i, tap, recv, h)

\* the promise of the handler in flight resolves with ret; h is the heap it
\* leaves and pre the calls it made since the log's last entry
HandlerResolves(ret, h, pre) ==
  LET s == CurrentStage
      taps == hooks[s]
      value == Kept(s, acc, ret)
      settle == Entry("resolve", s, k, taps[k], ret)
  IN  /\ acc' = value
      /\ heap' = h
      /\ IF k < Len(taps)
           THEN LET recv == Received(s, value, args)
                IN  /\ k' = k + 1
                    /\ step' = FirstStep(s, taps[k + 1], recv)
                    /\ log' = log \o pre \o <<settle>> \o StartLog(s, k + 1, taps[k + 1], recv, h)
           ELSE /\ k' = 0
                /\ step' = "none"
                /\ log' = log \o pre \o <<settle>>
      /\ UNCHANGED << pc, rejection, stage, args >>

\* a hook that goes on to its next handler when a handler rejects
HandlerRejectsIgnored(pre) ==
  LET s == CurrentStage
      taps == hooks[s]
      failed == Entry("reject", s, k, taps[k], Failure(s, taps[k], k, step))
  IN  /\ IF k < Len(taps)
           THEN /\ k' = k + 1
                /\ step' = FirstStep(s, taps[k + 1], CurrentRecv)
                /\ log' = log \o pre \o <<failed>> \o StartLog(s, k + 1, taps[k + 1], CurrentRecv, heap)
           ELSE /\ k' = 0
                /\ step' = "none"
                /\ log' = log \o pre \o <<failed>>
      /\ UNCHANGED << pc, rejection, stage, args, acc, heap >>

\* the promise of the handler in flight rejects: the hook's promise rejects,
\* and with it create()
HandlerRejects(pre) ==
  LET err == Failure(CurrentStage, CurrentTap, k, step)
  IN  /\ pc' = "rejected"
      /\ rejection' = Rethrown(err)
      /\ step' = "none"
      /\ log' = log \o pre \o <<Entry("reject", CurrentStage, k, CurrentTap, err)>>
      /\ UNCHANGED << stage, k, args, acc, heap >>

InFlight(st) == pc = "run" /\ stage >= 1 /\ k >= 1 /\ step = st

\* ------------------------------------------------------------------ create
\* create() is called: initPlugins() runs and its promise is awaited
CallCreate ==
  /\ pc \in {"idle", "resolved", "rejected"}
  /\ ipc = "idle"
  /\ creates < MaxCreates
  /\ creates' = creates + 1
  /\ hooks' = initPlugins(hooks)
  /\ creatorCalls' = creatorCalls \o Invoked(resolvePlugins, 1)
  /\ diskAtCall' = disk
  /\ pc' = "run"
  /\ rejection' = NoError
  /\ stage' = 0
  /\ k' = 0
  /\ step' = "none"
  /\ args' = <<>>
  /\ acc' = <<>>
  /\ infos' = NoInfos
  /\ templatePath' = NoPath
  /\ files' = 0
  /\ tmpPath' = 0
  /\ downloadUrl' = <<>>
  /\ heap' = [r \in {} |-> EmptyFiles]
  /\ log' = <<Entry("initPlugins", "", 0, "", <<>>)>>
  /\ UNCHANGED << disk, tmpDirs, options, modules, outsideCreate >>

\* a create() that gives emit another object than the one rendered into
FilesGivenFresh(n, ref) == IF n = 5 THEN ref + 1 ELSE ref

\* the files argument of hook n: the object create() made before render
FilesGiven(n, ref) == ref

\* the arguments create() gives to hook n
HookArgs(n, i, path, ref) ==
  CASE n = 1 -> [ projectName |-> OrEmpty(options.projectName),
                  appId |-> OrEmpty(options.appId),
                  templateName |-> Name(OrEmpty(options.templateName)) ]
    [] n = 2 -> i.templateName
    [] n = 3 -> [ infos |-> [projectName |-> i.projectName, appId |-> i.appId, templatePath |-> path],
                  files |-> FilesGiven(n, ref) ]
    [] n = 4 -> [files |-> FilesGiven(n, ref)]
    [] n = 5 -> [context |-> Context, files |-> FilesGiven(n, ref)]
    [] OTHER -> [context |-> Context]

\* the awaited promise (initPlugins, or the hook before) has resolved:
\* create() takes its result and calls the next hook
CallHook ==
  /\ pc = "run"
  /\ k = 0
  /\ stage < Len(Stages)
  /\ LET n == stage + 1
         s == StageName(n)
         newInfos == IF n = 2 THEN acc ELSE infos
         newPath == IF n = 3 THEN acc ELSE templatePath
         newFiles == IF n = 3 THEN creates ELSE files
         newHeap == IF n = 3 THEN [r \in {newFiles} |-> EmptyFiles] ELSE heap
         input == HookArgs(n, newInfos, newPath, newFiles)
         call == Entry("call", s, 0, "", input)
     IN  /\ stage' = n
         /\ infos' = newInfos
         /\ templatePath' = newPath
         /\ files' = newFiles
         /\ heap' = newHeap
         /\ args' = input
         /\ acc' = input
         /\ IF Len(hooks[s]) = 0
              THEN /\ k' = 0
                   /\ step' = "none"
                   /\ log' = log \o <<call>>
              ELSE /\ k' = 1
                   /\ step' = FirstStep(s, hooks[s][1], input)
                   /\ log' = log \o <<call>> \o StartLog(s, 1, hooks[s][1], input, newHeap)
  /\ UNCHANGED << hooks, pc, rejection, tmpPath, downloadUrl, disk, tmpDirs, creates, creatorCalls,
                  diskAtCall, options, modules, outsideCreate >>

\* the afterInit hook has resolved: create() returns
Return ==
  /\ pc = "run"
  /\ k = 0
  /\ stage = Len(Stages)
  /\ pc' = "resolved"
  /\ UNCHANGED << hooks, rejection, stage, k, step, args, acc, infos, templatePath, files, heap,
                  tmpPath, downloadUrl, disk, tmpDirs, log, creates, creatorCalls, diskAtCall,
                  options, modules, outsideCreate >>

\* what no handler step changes
Frame ==
  << hooks, infos, templatePath, files, creates, creatorCalls, diskAtCall,
     options, modules, outsideCreate >>

\* ---------------------------------------------------------- plugin handlers
PluginResolves ==
  /\ InFlight("plugin")
  /\ LET s == CurrentStage
         tap == CurrentTap
         recv == CurrentRecv
     IN  IF s \in WaterfallStages
           THEN HandlerResolves(PluginReturn(s, tap, recv), heap, <<>>)
           ELSE IF s \in FileStages
             THEN HandlerResolves(
                    Dropped,
                    Store(heap, recv.files, ApplyOp(Deref(heap, recv.files), PluginOp(s, tap), tap)),
                    <<Entry("io", s, k, tap, [what |-> "files", op |-> PluginOp(s, tap)])>>)
             ELSE HandlerResolves(Dropped, heap, <<>>)
  /\ UNCHANGED << Frame, tmpPath, downloadUrl, disk, tmpDirs >>

PluginRejects ==
  /\ InFlight("plugin")
  /\ HandlerRejects(<<>>)
  /\ UNCHANGED << Frame, tmpPath, downloadUrl, disk, tmpDirs >>

\* -------------------------------------------------- default resolveTemplate
Whitespace == {" ", "\n"}

\* String.prototype.trim
RECURSIVE Trim(_)
Trim(s) ==
  IF s = <<>> THEN s
  ELSE IF Head(s) \in Whitespace THEN Trim(Tail(s))
  ELSE IF s[Len(s)] \in Whitespace THEN Trim(SubSeq(s, 1, Len(s) - 1))
  ELSE s

\* what `npm info <name> dist.tarball` may print: nothing, or a tarball url
NpmInfoOutputs(name) == { <<"\n">>, HttpsPrefix \o <<"r">> \o <<"\n">> }

Io(what) == Entry("io", CurrentStage, k, CurrentTap, what)

\* templateName starts with file://: the handler returns the local path
LocalPathResolves ==
  /\ InFlight("local")
  /\ HandlerResolves(LocalTemplatePath(CurrentRecv.chars), heap, <<>>)
  /\ UNCHANGED << Frame, tmpPath, downloadUrl, disk, tmpDirs >>

\* tmp.dir calls back with an error
TmpDirFails ==
  /\ InFlight("tmp.dir")
  /\ HandlerRejects(<<>>)
  /\ UNCHANGED << Frame, tmpPath, downloadUrl, disk, tmpDirs >>

NewTmpDir == Cardinality(tmpDirs) + 1

\* tmp.dir calls back with a directory and templateName is a url: the
\* download starts
TmpDirThenDownload ==
  /\ InFlight("tmp.dir")
  /\ IsUrl(CurrentRecv.chars)
  /\ tmpDirs' = tmpDirs \cup {NewTmpDir}
  /\ tmpPath' = NewTmpDir
  /\ downloadUrl' = CurrentRecv.chars
  /\ step' = "axios.get"
  /\ log' = Append(log, Io([what |-> "axios.get", url |-> CurrentRecv.chars]))
  /\ UNCHANGED << Frame, pc, rejection, stage, k, args, acc, heap, disk >>

\* tmp.dir calls back with a directory and templateName is no url:
\* `npm info` runs, then the download of what it printed starts
TmpDirThenLookup ==
  /\ InFlight("tmp.dir")
  /\ ~IsUrl(CurrentRecv.chars)
  /\ tmpDirs' = tmpDirs \cup {NewTmpDir}
  /\ tmpPath' = NewTmpDir
  /\ \E out \in NpmInfoOutputs(CurrentRecv.chars) :
       /\ downloadUrl' = Trim(out)
       /\ log' = log \o << Io([what |-> "npm info", name |-> CurrentRecv.chars, exit |-> 0, out |-> out]),
                           Io([what |-> "axios.get", url |-> Trim(out)]) >>
  /\ step' = "axios.get"
  /\ UNCHANGED << Frame, pc, rejection, stage, k, args, acc, heap, disk >>

\* tmp.dir calls back with a directory and `npm info` exits non-zero:
\* execSync throws
TmpDirThenLookupThrows ==
  /\ InFlight("tmp.dir")
  /\ ~IsUrl(CurrentRecv.chars)
  /\ tmpDirs' = tmpDirs \cup {NewTmpDir}
  /\ tmpPath' = 0
  /\ HandlerRejects(<<Io([what |-> "npm info", name |-> CurrentRecv.chars, exit |-> 1, out |-> <<>>])>>)
  /\ UNCHANGED << Frame, downloadUrl, disk >>

\* axios.get answers with the response stream, which is piped into tar.x
DownloadResponds ==
  /\ InFlight("axios.get")
  /\ IsUrl(downloadUrl)
  /\ step' = "tar.x"
  /\ log' = Append(log, Io([what |-> "tar.x", dir |-> tmpPath]))
  /\ UNCHANGED << Frame, pc, rejection, stage, k, args, acc, heap, tmpPath, downloadUrl, disk, tmpDirs >>

\* axios.get fails
DownloadFails ==
  /\ InFlight("axios.get")
  /\ HandlerRejects(<<>>)
  /\ tmpPath' = 0
  /\ downloadUrl' = <<>>
  /\ UNCHANGED << Frame, disk, tmpDirs >>

\* the extraction closes: the handler returns the path in the temp directory
ExtractCloses ==
  /\ InFlight("tar.x")
  /\ HandlerResolves(TmpTemplatePath(tmpPath), heap, <<>>)
  /\ tmpPath' = 0
  /\ downloadUrl' = <<>>
  /\ UNCHANGED << Frame, disk, tmpDirs >>

\* the extraction emits an error
ExtractFails ==
  /\ InFlight("tar.x")
  /\ HandlerRejects(<<>>)
  /\ tmpPath' = 0
  /\ downloadUrl' = <<>>
  /\ UNCHANGED << Frame, disk, tmpDirs >>

\* ----------------------------------------------------------- default render
\* renderFiles resolves: Object.assign(files, rendered)
RenderFilesResolves ==
  /\ InFlight("renderFiles")
  /\ LET recv == CurrentRecv
         rendered == renderFiles(recv.infos.templatePath,
                                 [projectName |-> recv.infos.projectName, appId |-> recv.infos.appId])
     IN  HandlerResolves(
           Dropped,
           Store(heap, recv.files, Assign(Deref(heap, recv.files), rendered)),
           <<Io([what |-> "files", op |-> "assign", rendered |-> rendered])>>)
  /\ UNCHANGED << Frame, tmpPath, downloadUrl, disk, tmpDirs >>

RenderFilesRejects ==
  /\ InFlight("renderFiles")
  /\ HandlerRejects(<<>>)
  /\ UNCHANGED << Frame, tmpPath, downloadUrl, disk, tmpDirs >>

\* ------------------------------------------------------------- default emit
\* syncFiles(fs, context, files) wrote every file
SyncFilesResolves ==
  /\ InFlight("syncFiles")
  /\ disk' = syncFiles(disk, Deref(heap, CurrentRecv.files))
  /\ HandlerResolves(Dropped, heap, <<Io([what |-> "written", files |-> Deref(heap, CurrentRecv.files)])>>)
  /\ UNCHANGED << Frame, tmpPath, downloadUrl, tmpDirs >>

\* syncFiles fails on a path; the files written before it stay
SyncFilesRejects ==
  /\ InFlight("syncFiles")
  /\ LET f == Deref(heap, CurrentRecv.files)
     IN  \E done \in SUBSET (DOMAIN f) :
           /\ done # DOMAIN f
           /\ disk' = syncFiles(disk, Restrict(f, done))
           /\ HandlerRejects(<<Io([what |-> "written", files |-> Restrict(f, done)])>>)
  /\ UNCHANGED << Frame, tmpPath, downloadUrl, tmpDirs >>

\* ------------------------------------------------------------- default init
\* installNodeModules(context) resolves: installNodeModules(this.context,
\* ['@mpflow/service']) is called
InstallDepsResolves ==
  /\ InFlight("installDeps")
  /\ step' = "installService"
  /\ log' = Append(log, Io([what |-> "installNodeModules", modules |-> <<"@mpflow/service">>]))
  /\ UNCHANGED << Frame, pc, rejection, stage, k, args, acc, heap, tmpPath, downloadUrl, disk, tmpDirs >>

\* installNodeModules(this.context, ['@mpflow/service']) resolves: the
\* generator of the built-in service plugins is made and generate(false) called
InstallServiceResolves ==
  /\ InFlight("installService")
  /\ step' = "generate"
  /\ log' = Append(log, Io([what |-> "generate", applyAll |-> FALSE]))
  /\ UNCHANGED << Frame, pc, rejection, stage, k, args, acc, heap, tmpPath, downloadUrl, disk, tmpDirs >>

GenerateResolves ==
  /\ InFlight("generate")
  /\ HandlerResolves(Dropped, heap, <<>>)
  /\ UNCHANGED << Frame, tmpPath, downloadUrl, disk, tmpDirs >>

\* one of the three awaited calls of the init handler rejects
InitStepRejects ==
  /\ pc = "run" /\ k >= 1
  /\ step \in {"installDeps", "installService", "generate"}
  /\ HandlerRejects(<<>>)
  /\ UNCHANGED << Frame, tmpPath, downloadUrl, disk, tmpDirs >>

\* ------------------------------------------------------------ installPlugin
\* bound on the length of the list given to installPlugin
MaxNames == 2

PluginIds == {"p1", "p2"}

RECURSIVE SeqsUpTo(_, _)
SeqsUpTo(S, n) ==
  IF n = 0 THEN {<<>>}
  ELSE LET shorter == SeqsUpTo(S, n - 1)
       IN  shorter \cup {Append(q, x) : q \in shorter, x \in S}

\* an installPlugin without its check for the empty list
NothingToInstallUnchecked(names) == FALSE

\* !pluginNames.length
NothingToInstall(names) == Len(names) = 0

\* a transform that is given the names in reverse
ItemsGivenReversed(names) == [i \in 1..Len(names) |-> names[Len(names) + 1 - i]]

\* the items option given to the transform: items: pluginNames
ItemsGiven(names) == names

\* the add-to-exports codemod with fieldName 'plugins': the items appended
\* to the plugins field of mpflow.config.js
AddToExports(plugins, items) == plugins \o items

\* installPlugin(names) is called: it returns at once on an empty list, and
\* calls installNodeModules(this.context, names) otherwise
CallInstallPlugin ==
  /\ ipc \in {"idle", "resolved", "rejected"}
  /\ pc = "idle"
  /\ installs < MaxInstalls
  /\ installs' = installs + 1
  /\ irejection' = NoError
  /\ \E names \in SeqsUpTo(PluginIds, MaxNames) :
       /\ pluginNames' = names
       /\ ipc' = IF NothingToInstall(names) THEN "resolved" ELSE "install"
  /\ UNCHANGED << nodeModules, configPlugins, generations, options, modules, outsideInstall >>

\* installNodeModules resolves: the generator is made, the change of
\* mpflow.config.js is queued and generate(true) is called
InstallModulesResolves ==
  /\ ipc = "install"
  /\ nodeModules' = nodeModules \o pluginNames
  /\ generations' = Append(generations, [plugins |-> pluginNames, applyAll |-> TRUE])
  /\ ipc' = "generate"
  /\ UNCHANGED << irejection, pluginNames, configPlugins, installs, options, modules, outsideInstall >>

\* an installPlugin that goes on to its generation when installNodeModules
\* has failed
InstallModulesRejectsIgnored ==
  /\ ipc = "install"
  /\ generations' = Append(generations, [plugins |-> pluginNames, applyAll |-> TRUE])
  /\ ipc' = "generate"
  /\ UNCHANGED << irejection, pluginNames, nodeModules, configPlugins, installs,
                  options, modules, outsideInstall >>

InstallModulesRejects ==
  /\ ipc = "install"
  /\ ipc' = "rejected"
  /\ irejection' = Rethrown(Failure("installPlugin", CreatorTap, 0, "installNodeModules"))
  /\ UNCHANGED << pluginNames, nodeModules, configPlugins, generations, installs,
                  options, modules, outsideInstall >>

\* generate(true) resolves: the queued change of mpflow.config.js is written
GeneratePluginsResolves ==
  /\ ipc = "generate"
  /\ configPlugins' = AddToExports(configPlugins, ItemsGiven(pluginNames))
  /\ ipc' = "resolved"
  /\ UNCHANGED << irejection, pluginNames, nodeModules, generations, installs,
                  options, modules, outsideInstall >>

GeneratePluginsRejects ==
  /\ ipc = "generate"
  /\ ipc' = "rejected"
  /\ irejection' = Rethrown(Failure("installPlugin", CreatorTap, 0, "generate"))
  /\ UNCHANGED << pluginNames, nodeModules, configPlugins, generations, installs,
                  options, modules, outsideInstall >>

\* ------------------------------------------------------------ specifications
Next ==
  \/ CallCreate
  \/ CallHook
  \/ Return
  \/ PluginResolves
  \/ PluginRejects
  \/ LocalPathResolves
  \/ TmpDirFails
  \/ TmpDirThenDownload
  \/ TmpDirThenLookup
  \/ TmpDirThenLookupThrows
  \/ DownloadResponds
  \/ DownloadFails
  \/ ExtractCloses
  \/ ExtractFails
  \/ RenderFilesResolves
  \/ RenderFilesRejects
  \/ SyncFilesResolves
  \/ SyncFilesRejects
  \/ InstallDepsResolves
  \/ InstallServiceResolves
  \/ GenerateResolves
  \/ InitStepRejects

Spec == Init /\ [][Next]_vars

\* installPlugin() on a created project, for every plugins field the
\* project's mpflow.config.js may have
InitInstall ==
  /\ options \in {o \in InitOptions : o.plugins = <<>> /\ IsLocalTemplate(o.templateName.val)}
  /\ modules \in LoadedModules(options.plugins)
  /\ configPlugins \in SeqsUpTo(PluginIds, MaxNames)
  /\ Constructed
  /\ NotLoaded

NextInstall ==
  \/ CallInstallPlugin
  \/ InstallModulesResolves
  \/ InstallModulesRejects
  \/ GeneratePluginsResolves
  \/ GeneratePluginsRejects

SpecInstall == InitInstall /\ [][NextInstall]_vars

\* ------------------------------------------------------------- reading log
\* the order in which create() is to run the hooks
ExpectedOrder ==
  <<"prepare", "resolveTemplate", "render", "beforeEmit", "emit", "init", "afterInit">>

Position(s) == CHOOSE n \in 1..Len(ExpectedOrder) : ExpectedOrder[n] = s

IsCall(e) == e.ev = "call"
IsStart(e) == e.ev = "start"
IsResolve(e) == e.ev = "resolve"
IsReject(e) == e.ev = "reject"
IsFilesOp(e) == e.ev = "io" /\ e.val.what = "files"

\* the log entries that are about a handler
OfHandler(e) == e.ev \in {"start", "io", "resolve", "reject"}

\* handler i of hook s has resolved
Resolved(s, i) ==
  \E r \in 1..Len(log) : IsResolve(log[r]) /\ log[r].stage = s /\ log[r].k = i

\* the hook calls of the current create(), in order
Calls == SelectSeq(log, IsCall)

\* C1: in every run of create() plugin registration comes first, the hooks
\* are called in the order prepare, resolveTemplate, render, beforeEmit, emit,
\* init, afterInit, each once; the handlers of a hook run between its call
\* and the call of the next hook, and the next hook is called only when
\* every handler of the hook before it has resolved: when the last has,
\* each handler having started when the one before it had resolved
C1_StagesInOrder ==
  /\ pc # "idle" => log # <<>> /\ log[1].ev = "initPlugins"
  /\ \A j \in 2..Len(log) :
       /\ IsCall(log[j]) \/ OfHandler(log[j])
       /\ IsCall(log[j]) <=> (j = 2 \/ log[j - 1].stage # log[j].stage)
       /\ IsCall(log[j]) =>
            Position(log[j].stage) = IF j = 2 THEN 1 ELSE Position(log[j - 1].stage) + 1
       /\ (IsCall(log[j]) /\ j > 2) =>
            IF Len(hooks[log[j - 1].stage]) = 0
              THEN IsCall(log[j - 1])
              ELSE IsResolve(log[j - 1]) /\ log[j - 1].k = Len(hooks[log[j - 1].stage])
       /\ (IsStart(log[j]) /\ log[j].k > 1) =>
            IsResolve(log[j - 1]) /\ log[j - 1].k = log[j].k - 1
       /\ (IsStart(log[j]) /\ log[j].k = 1) => IsCall(log[j - 1])
       /\ IsResolve(log[j]) =>
            log[j - 1].ev \in {"start", "io"} /\ log[j - 1].k = log[j].k

\* a create() has run all seven hooks, with plugin handlers in prepare and
\* in init
C1_Witness ==
  /\ pc = "resolved"
  /\ Len(Calls) = Len(ExpectedOrder)
  /\ Len(hooks["prepare"]) >= 2
  /\ Len(hooks["init"]) >= 3
  /\ \E j \in 1..Len(log) : IsResolve(log[j]) /\ log[j].stage = "init" /\ log[j].k = 3

\* C2: once a handler of a hook has failed, nothing more happens in that
\* create(): no other handler of the hook and no later hook runs, and
\* create() is rejected; when the failure is in beforeEmit or before, emit,
\* init and afterInit are not called and the target directory is as it was
\* when create() was called
C2_FailureAborts ==
  \A j \in 2..Len(log) :
    IsReject(log[j]) =>
      /\ j = Len(log)
      /\ pc = "rejected"
      /\ Position(log[j].stage) <= Position("beforeEmit") =>
           /\ disk = diskAtCall
           /\ \A i \in 2..Len(log) : log[i].stage \notin {"emit", "init", "afterInit"}

\* a beforeEmit handler has failed while another handler of beforeEmit was
\* still to run, on a second create() over a directory the first one wrote
C2_Witness ==
  /\ pc = "rejected"
  /\ log[Len(log)].stage = "beforeEmit"
  /\ log[Len(log)].k < Len(hooks["beforeEmit"])
  /\ diskAtCall # EmptyFiles

\* the taps of hook s in the order they were made: the constructor's, then
\* one for each creator function invoked that taps s
TapOrder(s) ==
  (IF s \in {"resolveTemplate", "render", "emit", "init"} THEN <<"creator">> ELSE <<>>)
    \o SelectSeq(creatorCalls, LAMBDA id : s \in modules[id].taps)

\* C3: the handlers of one hook start in the order they were tapped, and a
\* handler starts only when the one before it has resolved: whatever a
\* handler does happens between its start and the start of the next
C3_HandlersInSeries ==
  /\ \A s \in {"prepare", "resolveTemplate", "render", "beforeEmit", "emit", "init", "afterInit"} :
       hooks[s] = TapOrder(s)
  /\ \A j \in 2..Len(log) :
    /\ IsStart(log[j]) =>
         /\ log[j].k \in 1..Len(hooks[log[j].stage])
         /\ log[j].tap = hooks[log[j].stage][log[j].k]
         /\ log[j - 1].stage = log[j].stage
         /\ IF log[j].k = 1
              THEN IsCall(log[j - 1])
              ELSE IsResolve(log[j - 1]) /\ log[j - 1].k = log[j].k - 1
    /\ log[j].ev \in {"io", "resolve", "reject"} =>
         /\ log[j - 1].ev \in {"start", "io"}
         /\ log[j - 1].stage = log[j].stage
         /\ log[j - 1].k = log[j].k
         /\ log[j - 1].tap = log[j].tap

\* the second of three handlers of render waits for nothing any more while
\* the third has started and not settled
C3_Witness ==
  /\ pc = "run"
  /\ stage = Position("render")
  /\ k = 3
  /\ Len(hooks["render"]) >= 4
  /\ Resolved("render", 2)

\* C4: in every hook the handlers of built-in plugins have resolved before a
\* handler of an inline plugin starts, and the creator functions are invoked
\* for the built-in plugins in the order they are declared, then for the
\* inline plugins in the order given
C4_BuiltInBeforeInline ==
  /\ \A j \in 2..Len(log) : \A r \in 2..Len(log) :
       ( /\ IsStart(log[j])
         /\ log[j].tap \in Range(options.plugins)
         /\ log[r].stage = log[j].stage
         /\ log[r].tap \in Range(BuildInPlugins) ) => r < j
  /\ \A a \in 1..Len(creatorCalls) : \A b \in 1..Len(creatorCalls) :
       (a < b /\ creatorCalls[a] \in Range(options.plugins)) =>
         /\ creatorCalls[b] \in Range(options.plugins)
         /\ \E x \in 1..Len(options.plugins) : \E y \in 1..Len(options.plugins) :
              x < y /\ options.plugins[x] = creatorCalls[a] /\ options.plugins[y] = creatorCalls[b]

\* C5: in resolveTemplate, render, emit and init the handler the constructor
\* tapped is the first, and a plugin's handler starts only when it has
\* resolved: the second handler of the hook when the first, the
\* constructor's, has resolved, and every other when the one before it has
C5_DefaultsFirst ==
  \A j \in 2..Len(log) :
    (IsStart(log[j]) /\ log[j].stage \in {"resolveTemplate", "render", "emit", "init"}) =>
      IF log[j].k = 1
        THEN log[j].tap = "creator" /\ IsCall(log[j - 1])
        ELSE /\ log[j].tap # "creator"
             /\ IsResolve(log[j - 1])
             /\ log[j - 1].stage = log[j].stage
             /\ log[j - 1].k = log[j].k - 1
             /\ log[j].k = 2 => log[j - 1].tap = "creator"

\* a second create() has run to its end with plugin handlers, tapped twice,
\* in each of the four hooks
C5_Witness ==
  /\ pc = "resolved"
  /\ creates = 2
  /\ \A s \in {"resolveTemplate", "render", "emit", "init"} :
       /\ Len(hooks[s]) >= 5
       /\ Resolved(s, Len(hooks[s]))

\* the index of the call of hook s in the log, 0 when it has not been called
CallOf(s) ==
  IF \E j \in 2..Len(log) : IsCall(log[j]) /\ log[j].stage = s
    THEN CHOOSE j \in 2..Len(log) : IsCall(log[j]) /\ log[j].stage = s
    ELSE 0

\* entry j of the log is the result of hook s: the resolution of its last
\* handler, or its call when it has no handler
IsResultOf(j, s) ==
  /\ log[j].stage = s
  /\ IF Len(hooks[s]) = 0
       THEN IsCall(log[j])
       ELSE IsResolve(log[j]) /\ log[j].k = Len(hooks[s])

\* C6: in prepare and resolveTemplate the first handler is given the value
\* the hook was called with and every other handler the value the handler
\* before it returned; resolveTemplate is called with the templateName the
\* last prepare handler returned, and render with the projectName and appId
\* the last prepare handler returned and the path the last resolveTemplate
\* handler returned
C6_Waterfall ==
  /\ \A j \in 2..Len(log) :
       (IsStart(log[j]) /\ log[j].stage \in {"prepare", "resolveTemplate"}) =>
         /\ log[j - 1].stage = log[j].stage
         /\ IF log[j].k = 1
              THEN IsCall(log[j - 1])
              ELSE IsResolve(log[j - 1]) /\ log[j - 1].k = log[j].k - 1
         /\ log[j].val = log[j - 1].val
  /\ LET c == CallOf("resolveTemplate")
     IN  c # 0 =>
           /\ IsResultOf(c - 1, "prepare")
           /\ log[c].val = log[c - 1].val.templateName
  /\ LET c == CallOf("resolveTemplate")
         r == CallOf("render")
     IN  r # 0 =>
           /\ IsResultOf(r - 1, "resolveTemplate")
           /\ log[r].val.infos.templatePath = log[r - 1].val
           /\ log[r].val.infos.projectName = log[c - 1].val.projectName
           /\ log[r].val.infos.appId = log[c - 1].val.appId

\* render has been called after two plugin handlers of prepare and a plugin
\* handler of resolveTemplate returned new values
C6_Witness ==
  /\ CallOf("render") # 0
  /\ Len(hooks["prepare"]) >= 2
  /\ Len(hooks["resolveTemplate"]) >= 2
  /\ infos.projectName # <<"demo">>
  /\ templatePath.via # <<>>

\* the file set that the changes logged up to entry n make of an empty one
RECURSIVE ReplayOps(_, _)
ReplayOps(ops, n) ==
  IF n = 0 THEN EmptyFiles
  ELSE IF ops[n].val.op = "assign" THEN Assign(ReplayOps(ops, n - 1), ops[n].val.rendered)
  ELSE ApplyOp(ReplayOps(ops, n - 1), ops[n].val.op, ops[n].tap)

Replay(n) == ReplayOps(SelectSeq(SubSeq(log, 1, n), IsFilesOp), Len(SelectSeq(SubSeq(log, 1, n), IsFilesOp)))

\* C7: render, beforeEmit and emit and each of their handlers are given the
\* one files object create() made, which is empty when render is called;
\* what a handler of these hooks returns changes nothing of what the next
\* is given; and the files syncFiles is given, and writes over the target
\* directory, are those that the changes made by the handlers of render and
\* beforeEmit, in their order, leave
C7_OneFileSet ==
  /\ \A j \in 2..Len(log) :
       ((IsCall(log[j]) \/ IsStart(log[j])) /\ log[j].stage \in {"render", "beforeEmit", "emit"}) =>
         log[j].val.files = files
  /\ \A c \in 2..Len(log) :
       (IsCall(log[c]) /\ log[c].stage \in {"render", "beforeEmit", "emit"}) =>
         \A j \in (c + 1)..Len(log) :
           (IsStart(log[j]) /\ log[j].stage = log[c].stage) => log[j].val = log[c].val
  /\ (pc = "run" /\ stage >= Position("render")) => Deref(heap, files) = Replay(Len(log))
  /\ LET written == Resolved("emit", 1)
     IN  \A j \in 2..Len(log) :
           (log[j].ev = "io" /\ log[j].val.what = "syncFiles") =>
             LET emitted == Replay(j - 1)
             IN  /\ log[j].val.files = emitted
                 /\ written => disk = Assign(diskAtCall, emitted)

\* syncFiles has written a file set in which a render handler added a file
\* and a beforeEmit handler removed the template's
C7_Witness ==
  /\ pc = "run"
  /\ stage = Position("emit")
  /\ \E j \in 2..Len(log) :
       /\ log[j].ev = "io" /\ log[j].val.what = "written"
       /\ DOMAIN log[j].val.files = {"gen"}
  /\ DOMAIN disk = {"gen"}

\* C8: when create() has ended, resolved or rejected, no temp directory
\* made for a downloaded template exists
C8_TmpDirDeleted == pc \in {"resolved", "rejected"} => tmpDirs = {}

\* the number of times id occurs in the sequence q
Count(q, id) == Cardinality({i \in 1..Len(q) : q[i] = id})

\* C9: the creator function of a plugin is invoked at most once, and no
\* plugin has two handlers in one hook
C9_RegisteredOnce ==
  /\ \A id \in DOMAIN modules : Count(creatorCalls, id) <= 1
  /\ \A s \in DOMAIN hooks : \A id \in DOMAIN modules : Count(hooks[s], id) <= 1

\* C10: installPlugin([]) installs nothing, starts no generation and leaves
\* the plugins field of mpflow.config.js as it is, and has returned
C10_EmptyInstallIsNoop ==
  /\ [](pluginNames = <<>> => ipc \in {"idle", "resolved"})
  /\ [][ (installs' = installs + 1 /\ pluginNames' = <<>>) =>
           /\ nodeModules' = nodeModules
           /\ generations' = generations
           /\ configPlugins' = configPlugins
           /\ ipc' = "resolved" ]_vars

\* installPlugin([]) has been called on a project whose mpflow.config.js
\* lists plugins, after an installPlugin that installed some
C10_Witness ==
  /\ installs = 2
  /\ pluginNames = <<>>
  /\ ipc = "resolved"
  /\ configPlugins # <<>>
  /\ nodeModules # <<>>

LocalMarker == <<"f", "i", "l", "e", ":", "/", "/">>

\* the default handler of resolveTemplate has been started at entry j of
\* the log with a name that begins with file://
StartsLocal(j) ==
  /\ IsStart(log[j])
  /\ log[j].stage = "resolveTemplate"
  /\ log[j].tap = "creator"
  /\ Len(log[j].val.chars) >= Len(LocalMarker)
  /\ SubSeq(log[j].val.chars, 1, Len(LocalMarker)) = LocalMarker

\* C12: for a template name that begins with file:// the default handler of
\* resolveTemplate calls nothing (no tmp.dir, no npm info, no axios.get, no
\* tar.x), makes no temp directory, cannot fail, and returns the template
\* directory of the resolved path of what follows the marker
C12_LocalTemplate ==
  \A j \in 2..Len(log) :
    StartsLocal(j) =>
      /\ tmpDirs = {}
      /\ tmpPath = 0
      /\ downloadUrl = <<>>
      /\ \A i \in 2..Len(log) : ~(log[i].ev = "io" /\ log[i].stage = "resolveTemplate" /\ log[i].k = log[j].k)
      /\ j < Len(log) =>
           /\ IsResolve(log[j + 1])
           /\ log[j + 1].k = log[j].k
           /\ log[j + 1].val.kind = "local"
           /\ log[j + 1].val.base = SubSeq(log[j].val.chars, 8, Len(log[j].val.chars))
           /\ log[j + 1].val.sub = <<"template">>

\* a second create() has been given the local path by the default handler
\* and has called render with it
C12_Witness ==
  /\ creates = 2
  /\ stage >= Position("render")
  /\ templatePath.kind = "local"
  /\ templatePath.base = <<"t">>
  /\ \E j \in 2..Len(log) : StartsLocal(j)

\* entry i of the log is a call of the given kind made by the handler
\* started at entry j
IsIoOf(i, j, what) ==
  /\ log[i].ev = "io"
  /\ log[i].stage = log[j].stage
  /\ log[i].k = log[j].k
  /\ log[i].val.what = what

IoCount(j, what) == Cardinality({i \in 2..Len(log) : IsIoOf(i, j, what)})

\* the default handler of resolveTemplate has been started at entry j of
\* the log with a name that is neither a url nor a file:// name
StartsPackage(j) ==
  /\ IsStart(log[j])
  /\ log[j].stage = "resolveTemplate"
  /\ log[j].tap = "creator"
  /\ ~StartsLocal(j)
  /\ \A prefix \in { <<"h", "t", "t", "p", ":", "/", "/">>, <<"h", "t", "t", "p", "s", ":", "/", "/">> } :
       \/ Len(log[j].val.chars) < Len(prefix)
       \/ SubSeq(log[j].val.chars, 1, Len(prefix)) # prefix

MaxEmits == 2

\* the file sets given to the emit hook: some of three paths, all with the
\* one or all with the other of two contents
EmitPaths == {"a", "b", "c"}

EmitContents == {PluginContent("v1"), PluginContent("v2")}

EmitFileSets == {[p \in S |-> v] : S \in SUBSET EmitPaths, v \in EmitContents}

\* hooks.emit.promise(this.context, files) is called on a constructed
\* Creator, with a files object of the caller's
CallEmit ==
  /\ pc \in {"idle", "rejected"}
  /\ ipc = "idle"
  /\ Len(Calls) < MaxEmits
  /\ \E f \in EmitFileSets :
       LET n == Position("emit")
           s == StageName(n)
           ref == Len(Calls) + 1
           newHeap == Store(heap, ref, f)
           input == HookArgs(n, infos, templatePath, ref)
       IN  /\ pc' = "run"
           /\ rejection' = NoError
           /\ stage' = n
           /\ files' = ref
           /\ heap' = newHeap
           /\ args' = input
           /\ acc' = input
           /\ k' = 1
           /\ step' = FirstStep(s, hooks[s][1], input)
           /\ log' = log \o <<Entry("call", s, 0, "", input)>> \o StartLog(s, 1, hooks[s][1], input, newHeap)
           /\ diskAtCall' = disk
  /\ UNCHANGED << hooks, infos, templatePath, tmpPath, downloadUrl, disk, tmpDirs, creates,
                  creatorCalls, options, modules, outsideCreate >>

\* the promise of the emit hook has resolved
EmitSettles ==
  /\ pc = "run"
  /\ k = 0
  /\ stage = Position("emit")
  /\ pc' = "idle"
  /\ UNCHANGED << hooks, rejection, stage, k, step, args, acc, infos, templatePath, files, heap,
                  tmpPath, downloadUrl, disk, tmpDirs, log, creates, creatorCalls, diskAtCall,
                  options, modules, outsideCreate >>

InitEmit ==
  /\ options \in {o \in InitOptions : o.plugins = <<>> /\ IsLocalTemplate(o.templateName.val)}
  /\ modules \in LoadedModules(options.plugins)
  /\ configPlugins = <<>>
  /\ Constructed
  /\ NotLoaded

NextEmit ==
  \/ CallEmit
  \/ SyncFilesResolves
  \/ SyncFilesRejects
  \/ EmitSettles

SpecEmit == InitEmit /\ [][NextEmit]_vars

\* entry i of the log is what a syncFiles wrote
IsWritten(i) == log[i].ev = "io" /\ log[i].val.what = "written"

\* entries a and b of the log are what two syncFiles wrote, one after the
\* other, nothing written between them nor after them
WrittenInSuccession(a, b) ==
  /\ a < b
  /\ IsWritten(a)
  /\ IsWritten(b)
  /\ \A i \in (a + 1)..Len(log) : IsWritten(i) => i = b

\* C14: after two emits onto the target directory, one after the other, the
\* directory holds every file of the second with the second's content and
\* every other file of the first with the first's content; an emit that
\* resolves has written the file set it was given; and an emit changes no
\* file of the directory that is not in its file set, removes none, and
\* adds none but those of its file set
C14_EmitUnion ==
  /\ []( \A a \in 2..Len(log) : \A b \in 2..Len(log) :
           WrittenInSuccession(a, b) =>
             /\ \A p \in DOMAIN log[b].val.files :
                  p \in DOMAIN disk /\ disk[p] = log[b].val.files[p]
             /\ \A p \in DOMAIN log[a].val.files \ DOMAIN log[b].val.files :
                  p \in DOMAIN disk /\ disk[p] = log[a].val.files[p] )
  /\ [][ (InFlight("syncFiles") /\ pc' = "run" /\ step' # "syncFiles") =>
           \A p \in DOMAIN Deref(heap, args.files) :
             p \in DOMAIN disk' /\ disk'[p] = Deref(heap, args.files)[p] ]_vars
  /\ [][ disk' # disk =>
           LET given == Deref(heap, args.files)
           IN  /\ InFlight("syncFiles")
               /\ \A p \in DOMAIN disk :
                    /\ p \in DOMAIN disk'
                    /\ p \notin DOMAIN given => disk'[p] = disk[p]
               /\ \A p \in DOMAIN disk' :
                    \/ p \in DOMAIN disk /\ disk'[p] = disk[p]
                    \/ p \in DOMAIN given /\ disk'[p] = given[p] ]_vars

\* two emits have resolved one after the other, the first with files a and
\* b, the second with files b and c and another content for b
C14_Witness ==
  /\ pc = "idle"
  /\ \E a \in 2..Len(log) : \E b \in 2..Len(log) :
       /\ WrittenInSuccession(a, b)
       /\ IsResolve(log[a + 1])
       /\ IsResolve(log[b + 1])
       /\ DOMAIN log[a].val.files = {"a", "b"}
       /\ DOMAIN log[b].val.files = {"b", "c"}
       /\ log[a].val.files["b"] # log[b].val.files["b"]
       /\ disk = [p \in {"a", "b", "c"} |->
                    IF p = "a" THEN log[a].val.files[p] ELSE log[b].val.files[p]]

\* ------------------------------------------ create() and installPlugin()
\* a Creator instance on which create() or installPlugin() is called: one
\* whose plugins all tap every hook, so that every call that can fail is made
InitCalls ==
  /\ options \in InitOptions
  /\ modules \in {m \in LoadedModules(options.plugins) : \A p \in DOMAIN m : m[p].creator}
  /\ configPlugins = <<>>
  /\ Constructed
  /\ NotLoaded

NextCalls == Next \/ NextInstall

SpecCalls == InitCalls /\ [][NextCalls]_vars

\* the number of entries of the log that record a failed handler
Failures == Cardinality({j \in 1..Len(log) : IsReject(log[j])})

\* C15: create() resolves only when no handler has failed, and when a
\* handler has failed create() is rejected with the error that handler
\* failed with: the error of that hook, of that handler, of the call that
\* failed in it; installPlugin() resolves only when no step has failed, is
\* rejected as soon as its installNodeModules or its generate has failed, and
\* then with the error of that step
C15_FailureSurfaced ==
  /\ []( /\ pc = "resolved" => (Failures = 0 /\ rejection.step = "none")
         /\ pc = "run" => (Failures = 0 /\ rejection.step = "none")
         /\ Failures > 0 => pc = "rejected"
         /\ pc = "rejected" =>
              LET e == log[Len(log)]
              IN  /\ IsReject(e)
                  /\ Failures = 1
                  /\ rejection = e.val
                  /\ e.val.stage = e.stage /\ e.val.tap = e.tap /\ e.val.k = e.k
                  /\ e.val.step # "none"
         /\ ipc \in {"idle", "install", "generate", "resolved"} => irejection.step = "none"
         /\ ipc = "rejected" => irejection.step \in {"installNodeModules", "generate"} )
  /\ [][ /\ (pc = "run" /\ pc' = "rejected") => rejection'.step = step
         /\ (ipc = "install" /\ ipc' # "generate") =>
              (ipc' = "rejected" /\ irejection'.step = "installNodeModules")
         /\ (ipc = "generate" /\ ipc' # "resolved") =>
              (ipc' = "rejected" /\ irejection'.step = "generate")
         /\ ipc' = "resolved" =>
              (ipc \in {"generate", "resolved"} \/ pluginNames' = <<>>) ]_vars

\* create() has been rejected with the error of a plugin's handler that
\* failed in init, behind the default handler
C15_Witness ==
  /\ pc = "rejected"
  /\ rejection.stage = "init"
  /\ rejection.step = "plugin"
  /\ rejection.k >= 2
  /\ rejection.tap \in Range(options.plugins)

\* C16: for a name that is neither a url nor a file:// name the default
\* handler of resolveTemplate runs `npm info` before it asks for a temp
\* directory; and when `npm info` has exited non-zero or printed nothing,
\* the handler has failed, axios.get has not been called and no temp
\* directory has been made
C16_LookupBeforeTmpDir ==
  \A j \in 2..Len(log) :
    StartsPackage(j) =>
      /\ \A i \in 2..Len(log) : \A t \in 2..Len(log) :
           (IsIoOf(i, j, "npm info") /\ IsIoOf(t, j, "tmp.dir")) => i < t
      /\ \A i \in 2..Len(log) :
           (IsIoOf(i, j, "npm info") /\ (log[i].val.exit # 0 \/ Trim(log[i].val.out) = <<>>)) =>
             /\ IoCount(j, "axios.get") = 0
             /\ tmpDirs = {}
             /\ i < Len(log)
             /\ IsReject(log[i + 1])

\* entry i of the log is the failure of the handler started at entry j
IsRejectOf(i, j) ==
  IsReject(log[i]) /\ log[i].stage = log[j].stage /\ log[i].k = log[j].k

\* C17: the default handler of init calls installNodeModules(context) when
\* it starts; what comes next is its failure or the call of
\* installNodeModules(this.context, ['@mpflow/service']); next, its failure
\* or the call of generate(false); next, its failure or its resolution; no
\* call is made while another is awaited; and afterInit is called only when
\* the handler has resolved
C17_InitSteps ==
  \A j \in 2..Len(log) :
    (IsStart(log[j]) /\ log[j].stage = "init" /\ log[j].tap = "creator") =>
      /\ j + 1 <= Len(log)
      /\ IsIoOf(j + 1, j, "installNodeModules") /\ log[j + 1].val.modules = <<>>
      /\ j + 2 <= Len(log) =>
           \/ IsRejectOf(j + 2, j)
           \/ IsIoOf(j + 2, j, "installNodeModules") /\ log[j + 2].val.modules = <<"@mpflow/service">>
      /\ j + 3 <= Len(log) =>
           \/ IsRejectOf(j + 3, j)
           \/ IsIoOf(j + 3, j, "generate") /\ log[j + 3].val.applyAll = FALSE
      /\ j + 4 <= Len(log) =>
           \/ IsRejectOf(j + 4, j)
           \/ IsResolve(log[j + 4]) /\ log[j + 4].stage = "init" /\ log[j + 4].k = log[j].k
      /\ (pc = "run" /\ stage = Position("init") /\ k = log[j].k) =>
           step = CASE Len(log) = j + 1 -> "installDeps"
                    [] Len(log) = j + 2 -> "installService"
                    [] OTHER -> "generate"
      /\ \A i \in 2..Len(log) :
           log[i].stage = "afterInit" => (j + 4 <= Len(log) /\ IsResolve(log[j + 4]))

\* the default handler of init has failed in its second step: the project's
\* dependencies are installed, @mpflow/service is not, nothing is generated
C17_Witness ==
  /\ pc = "rejected"
  /\ rejection.stage = "init"
  /\ rejection.tap = "creator"
  /\ rejection.step = "installService"
  /\ Len(hooks["init"]) >= 2

\* the default handler of resolveTemplate has been started at entry j of
\* the log with a name that begins with http:// or https://
StartsRemote(j) ==
  /\ IsStart(log[j])
  /\ log[j].stage = "resolveTemplate"
  /\ log[j].tap = "creator"
  /\ ~StartsLocal(j)
  /\ ~StartsPackage(j)

\* C18: a template name is taken for a local one when it begins with
\* file://, else for a url when it begins with http:// or https://, else
\* for the name of a package, and for one of the three only: the handler
\* runs `npm info` for the name of a package and for nothing else, and with
\* that name; it asks for a temp directory, first of all, for whatever is
\* not local, and for a local name calls nothing; and a url is downloaded
\* as it is
C18_Classification ==
  \A j \in 2..Len(log) :
    (IsStart(log[j]) /\ log[j].stage = "resolveTemplate" /\ log[j].tap = "creator") =>
      /\ Cardinality({c \in {"Local", "Remote", "RegistryPackage"} :
                        \/ c = "Local" /\ StartsLocal(j)
                        \/ c = "Remote" /\ StartsRemote(j)
                        \/ c = "RegistryPackage" /\ StartsPackage(j)}) = 1
      /\ IoCount(j, "npm info") > 0 => StartsPackage(j)
      /\ \A i \in 2..Len(log) : IsIoOf(i, j, "npm info") => log[i].val.name = log[j].val.chars
      /\ \A what \in {"tmp.dir", "axios.get", "tar.x"} : IoCount(j, what) > 0 => ~StartsLocal(j)
      /\ StartsLocal(j) => (j = Len(log) \/ log[j + 1].ev # "io")
      /\ ~StartsLocal(j) => (j < Len(log) /\ IsIoOf(j + 1, j, "tmp.dir") /\ IoCount(j, "tmp.dir") = 1)
      /\ StartsRemote(j) =>
           \A i \in 2..Len(log) :
             IsIoOf(i, j, "axios.get") => (i = j + 2 /\ log[i].val.url = log[j].val.chars)
      /\ (StartsPackage(j) /\ j + 2 <= Len(log)) =>
           (IsRejectOf(j + 2, j) \/ IsIoOf(j + 2, j, "npm info"))
      /\ (pc = "run" /\ stage = Position("resolveTemplate") /\ k = log[j].k) =>
           (tmpPath # 0 <=> step \in {"axios.get", "tar.x"})

\* the template at "http://h" has been downloaded and extracted without a
\* lookup, on a Creator whose plugins tap resolveTemplate
C18_Witness ==
  /\ stage >= Position("render")
  /\ Len(hooks["resolveTemplate"]) >= 2
  /\ \E j \in 2..Len(log) :
       /\ StartsRemote(j)
       /\ log[j].val.chars = <<"h", "t", "t", "p", ":", "/", "/", "h">>
       /\ IoCount(j, "npm info") = 0
       /\ IoCount(j, "tar.x") = 1

\* C19: installPlugin makes its generator and calls generate only when its
\* installNodeModules has resolved, with the names it was given and the
\* flag true; when installNodeModules fails, installPlugin is rejected with
\* no generation started and the plugins field of mpflow.config.js as it was,
\* and neither changes until installPlugin is called again
C19_InstallThenGenerate ==
  /\ [][ generations' # generations =>
           /\ ipc = "install" /\ ipc' = "generate"
           /\ pluginNames # <<>>
           /\ nodeModules' = nodeModules \o pluginNames
           /\ Len(generations') = Len(generations) + 1
           /\ \A i \in 1..Len(generations) : generations'[i] = generations[i]
           /\ generations'[Len(generations')].plugins = pluginNames
           /\ generations'[Len(generations')].applyAll = TRUE ]_vars
  /\ [][ (ipc = "install" /\ ipc' = "rejected") =>
           /\ generations' = generations
           /\ configPlugins' = configPlugins
           /\ nodeModules' = nodeModules ]_vars
  /\ [][ ipc = "rejected" =>
           \/ generations' = generations /\ configPlugins' = configPlugins
           \/ installs' = installs + 1 ]_vars
  /\ [][ configPlugins' # configPlugins => ipc = "generate" ]_vars
  /\ [](ipc = "generate" =>
          /\ generations # <<>>
          /\ generations[Len(generations)].plugins = pluginNames
          /\ Len(nodeModules) >= Len(pluginNames)
          /\ SubSeq(nodeModules, Len(nodeModules) - Len(pluginNames) + 1, Len(nodeModules)) = pluginNames)

\* a second installPlugin has been rejected by the failure of its
\* installNodeModules, after a first one that ran its generation
C19_Witness ==
  /\ installs = 2
  /\ ipc = "rejected"
  /\ irejection.step = "installNodeModules"
  /\ Len(generations) = 1
  /\ pluginNames # <<>>
  /\ Len(configPlugins) >= 3

\* ------------------------------------------------------- the mpflow plugin
\* ids of the webpack configs a service may have
WebpackConfigNames == {"app", "plugin", "other", "worker"}

\* the project configs given to the plugin; directories are lists of path
\* segments
ServiceConfigs ==
  { ProjectConfig(Unset, Given(<<"mp">>), Given(<<"pl">>)),
    ProjectConfig(Given(<<"source">>), Unset, Unset) }

\* option || fallback
OrDefault(o, fallback) == IF o.set /\ o.val # <<>> THEN o.val ELSE fallback

\* api.resolve(a, b): the two under the project directory
Resolve(a, b) == <<"context">> \o a \o b

\* webpackConfig.output.get('path')
OutputPath(id) ==
  CASE id = "app" -> <<"context", "dist">>
    [] id = "plugin" -> <<"context", "dist", "plugin">>
    [] id = "worker" -> <<"context", "out", "worker">>
    [] OTHER -> <<"context", "out">>

\* path.relative(from, to)
RECURSIVE Relative(_, _)
Relative(from, to) ==
  IF from # <<>> /\ to # <<>> /\ Head(from) = Head(to)
    THEN Relative(Tail(from), Tail(to))
    ELSE [i \in 1..Len(from) |-> ".."] \o to

\* api.getProjectName()
ProjectName == "demo"

\* what the chained calls on mpflowConfig.program set, in the callback of
\* webpack config id
Program(id) ==
  [ appId |-> config.appId,
    outputPath |-> Relative(OutputPath(id),
                            Resolve(OrDefault(config.outputDir, <<"dist">>), <<"project.config.json">>)),
    projectName |-> ProjectName,
    compileType |-> config.compileType,
    miniprogramRoot |-> config.miniprogramRoot,
    qcloudRoot |-> config.qcloudRoot,
    pluginRoot |-> config.pluginRoot ]

\* new ConfigChain()
NewConfigChain == [roots |-> {}, program |-> Unset]

\* a plugin that does not look at its flag
NeedsProjectConfigAlways(flag) == TRUE

\* if (!emitProjectConfig)
NeedsProjectConfig(flag) == ~flag

Put(f, key, v) == [x \in DOMAIN f \cup {key} |-> IF x = key THEN v ELSE f[x]]

\* the callbacks the plugin registers when the callback it gave to
\* beforeConfigureWebpack runs: one for every webpack config, one for 'app'
\* and one for 'plugin' when the service has such a config
Registered ==
  {<<id, "all">> : id \in webpackConfigs} \cup {<<id, id>> : id \in {"app", "plugin"} \cap webpackConfigs}

\* the state mpflow(api, config) leaves
InitService ==
  /\ options \in {o \in InitOptions : o.plugins = <<>> /\ IsLocalTemplate(o.templateName.val)}
  /\ modules \in LoadedModules(options.plugins)
  /\ configPlugins = <<>>
  /\ Constructed
  /\ webpackConfigs \in SUBSET WebpackConfigNames \ {{}}
  /\ config \in ServiceConfigs
  /\ emitProjectConfig = FALSE
  /\ registered = FALSE
  /\ pending = {}
  /\ mpflowConfigs = << >>
  /\ configured = <<>>

\* the service resolves its webpack configs: the callback given to
\* beforeConfigureWebpack runs
BeforeConfigureWebpack ==
  /\ ~registered
  /\ registered' = TRUE
  /\ pending' = Registered
  /\ UNCHANGED << webpackConfigs, config, emitProjectConfig, mpflowConfigs, configured,
                  options, modules, createVars, installVars >>

\* the callback given to api.configureWebpack(fn) runs for a webpack config:
\* the MpflowPlugin is given a new ConfigChain, and the tap adds the source
\* root and, when the flag is not set, sets the program config and the flag
ConfigureWebpack ==
  \E id \in webpackConfigs :
    /\ <<id, "all">> \in pending
    /\ LET added == [NewConfigChain EXCEPT
                       !.roots = @ \cup {Resolve(OrDefault(config.sourceDir, <<"src">>), <<>>)}]
           emits == NeedsProjectConfig(emitProjectConfig)
       IN  /\ mpflowConfigs' =
                Put(mpflowConfigs, id,
                    IF emits THEN [added EXCEPT !.program = Given(Program(id))] ELSE added)
           /\ emitProjectConfig' = IF emits THEN TRUE ELSE emitProjectConfig
    /\ pending' = pending \ {<<id, "all">>}
    /\ configured' = Append(configured, [id |-> id, callback |-> "all"])
    /\ UNCHANGED << webpackConfigs, config, registered, options, modules, createVars, installVars >>

\* the callback given to api.configureWebpack('app', fn) or
\* api.configureWebpack('plugin', fn) runs, after the one for every config:
\* the tap adds miniprogramRoot or pluginRoot under the source directory
ConfigureNamed ==
  \E id \in {"app", "plugin"} :
    /\ <<id, id>> \in pending
    /\ <<id, "all">> \notin pending
    /\ LET root == IF id = "app" THEN config.miniprogramRoot ELSE config.pluginRoot
       IN  mpflowConfigs' =
             [mpflowConfigs EXCEPT
                ![id].roots =
                   @ \cup {Resolve(OrDefault(config.sourceDir, <<"src">>), OrDefault(root, <<>>))}]
    /\ pending' = pending \ {<<id, id>>}
    /\ configured' = Append(configured, [id |-> id, callback |-> id])
    /\ UNCHANGED << webpackConfigs, config, emitProjectConfig, registered, options, modules,
                    createVars, installVars >>

NextService ==
  \/ BeforeConfigureWebpack
  \/ ConfigureWebpack
  \/ ConfigureNamed

SpecService == InitService /\ [][NextService]_vars

\* the ConfigChains whose program config has been set
WithProgram == {key \in DOMAIN mpflowConfigs : mpflowConfigs[key].program.set}

\* C20: of all the ConfigChains the plugin has configured, for whatever
\* webpack configs and in whatever order, exactly one has the program
\* config set: the one of the
\* first callback that ran, with appId, compileType and the three roots of
\* the project config, the project's name, and the path of
\* project.config.json seen from that webpack config's output directory;
\* and every callback that runs after the first leaves every program config
\* as it is and only adds roots
C20_ProjectConfigOnce ==
  /\ []( /\ configured = <<>> => (WithProgram = {} /\ ~emitProjectConfig)
         /\ configured # <<>> =>
              LET first == configured[1]
                  program == mpflowConfigs[first.id].program.val
              IN  /\ emitProjectConfig
                  /\ WithProgram = {first.id}
                  /\ first.callback = "all"
                  /\ program.appId = config.appId
                  /\ program.compileType = config.compileType
                  /\ program.projectName = "demo"
                  /\ program.miniprogramRoot = config.miniprogramRoot
                  /\ program.qcloudRoot = config.qcloudRoot
                  /\ program.pluginRoot = config.pluginRoot
                  /\ program.outputPath =
                       CASE first.id = "app" -> <<"project.config.json">>
                         [] first.id = "plugin" -> <<"..", "project.config.json">>
                         [] first.id = "worker" -> <<"..", "..", "dist", "project.config.json">>
                         [] OTHER -> <<"..", "dist", "project.config.json">> )
  /\ [][ (configured # <<>> /\ configured' # configured) =>
           /\ Len(configured') = Len(configured) + 1
           /\ \A key \in DOMAIN mpflowConfigs :
                /\ key \in DOMAIN mpflowConfigs'
                /\ mpflowConfigs'[key].program = mpflowConfigs[key].program
                /\ mpflowConfigs[key].roots \subseteq mpflowConfigs'[key].roots
           /\ \A key \in DOMAIN mpflowConfigs' \ DOMAIN mpflowConfigs :
                /\ ~mpflowConfigs'[key].program.set
                /\ mpflowConfigs'[key].roots # {} ]_vars

\* every callback has run for a service with four webpack configs, the one
\* for 'plugin' first, the one for 'app' last
C20_Witness ==
  /\ webpackConfigs = {"app", "plugin", "other", "worker"}
  /\ registered
  /\ pending = {}
  /\ Len(configured) = 6
  /\ configured[1].id = "plugin"
  /\ configured[6] = [id |-> "app", callback |-> "app"]
  /\ Cardinality(DOMAIN mpflowConfigs) = 4

====
